---- MODULE Spec2Model ----
(***************************************************************************)
(* USB-Monitor: the device / port reconciliation engine, its poller and    *)
(* the speed tester.                                                       *)
(*                                                                         *)
(*   src/src/core/device_monitor.py   DeviceMonitor, USBDevice             *)
(*   src/src/core/port_monitor.py     PortMonitor, COMPort                 *)
(*   src/src/core/speed_test.py       USBSpeedTester, SpeedTestResult      *)
(*                                                                         *)
(* Records are Python objects that are mutated in place.  The entity list  *)
(* (devices / ports) holds the objects; the history list holds references  *)
(* to the same objects, modelled as indexes into the entity list (no       *)
(* operation removes an element of the entity list, so an index is a       *)
(* stable object reference).                                               *)
(*                                                                         *)
(* A callback slot is modelled as registered and non-raising (the handlers *)
(* MainWindow registers only enqueue a QTimer.singleShot): an event is     *)
(* logged at each place where the code calls the slot, with a copy of the  *)
(* record as it is at the moment of the call.                              *)
(*                                                                         *)
(* DeviceMonitor and PortMonitor share no state and never call each other, *)
(* so a behaviour of the program is an interleaving of two independent     *)
(* behaviours.  Spec analyses one monitor per behaviour (variable focus,   *)
(* chosen in Init); the other monitor stays in its constructed state.      *)
(* The operations of Spec run one after the other, each to completion, at  *)
(* one reading of the clock (now).                                         *)
(***************************************************************************)
EXTENDS Naturals, Sequences, FiniteSets, TLC

VARIABLES focus, now, op, snapshot, events,
          devices, device_history,
          ports, port_history,
          is_monitoring, monitor_thread, tpc, loc, cursor,
          is_testing, current_test_thread, probe, calls, call

vars == <<focus, now, op, snapshot, events,
          devices, device_history, ports, port_history,
          is_monitoring, monitor_thread, tpc, loc, cursor,
          is_testing, current_test_thread, probe, calls, call>>

\* The poller's control state: the flag, the Thread object last started,
\* and for every thread its position (tpc) and the snapshot it is
\* reconciling (loc, the local current_devices), with its place in the first
\* loop where that loop is followed entry by entry (cursor).
pollerVars == <<is_monitoring, monitor_thread, tpc, loc, cursor>>

\* The speed tester's state: the flag, the Thread object last started, and
\* for every thread its frame (probe: the position in _run_speed_test, its
\* arguments and locals) and the calls it has made to the three callback
\* slots (calls); call is the last evaluation of one of its computations
\* (function, arguments, value).
testerVars == <<is_testing, current_test_thread, probe, calls, call>>

(***************************************************************************)
(* Bounds.                                                                 *)
(***************************************************************************)
MaxSnapshot == 2
MaxThreads == 2
MaxProbes == 2
MaxClock == 1

(***************************************************************************)
(* USBSpeedTester.__init__: no probe, no thread.  Thread 0 is the calling  *)
(* thread; 1..MaxProbes are the Thread objects start_speed_test creates.   *)
(***************************************************************************)
ProbeThreads == 1..MaxProbes

NoFrame(pc) ==
    [pc |-> pc, test_size_mb |-> 0, e |-> "", write_time |-> 0,
     read_time |-> 0, stopped |-> FALSE]

NoCall == [fn |-> "", args |-> << >>, ret |-> << >>]

TesterConstructed ==
    /\ is_testing = FALSE
    /\ current_test_thread = 0
    /\ probe = [th \in {0} \cup ProbeThreads |->
                  IF th = 0 THEN NoFrame("idle") ELSE NoFrame("unborn")]
    /\ calls = [th \in ProbeThreads |-> << >>]
    /\ call = NoCall

(***************************************************************************)
(* Inputs: what the platform enumerators can return.                       *)
(***************************************************************************)
\* Descriptive fields a USBDevice is constructed with.  description,
\* product_id, vendor_id, device_type, usb_version, power_consumption,
\* driver_version and port_number are handled by the code exactly as the
\* three kept here: set by the constructor and never written again.
NoInfo == [name |-> "Unbekanntes USB-Geraet", manufacturer |-> "",
           serial_number |-> ""]

MouseInfo == [name |-> "Mouse", manufacturer |-> "Acme", serial_number |-> "S1"]

\* USBDevice(...) followed by __post_init__ at time t; flag is the pair
\* (is_connected, connection_status): True with the default "Connected", or
\* WMI's `Status == "OK"` and `Status or "Unknown"`.
USBDevice(id, info, flag, t) ==
    [device_id |-> id,
     name |-> info.name, manufacturer |-> info.manufacturer,
     serial_number |-> info.serial_number,
     is_connected |-> flag[1], connection_status |-> flag[2],
     first_seen |-> t, last_seen |-> t]

\* The observations an enumerator can report at time t: a device with a
\* device_id (WMI), a named device without one (macOS, Linux: every device)
\* and an unnamed one without device_id whose WMI Status is missing.
DeviceEntities(t) ==
    { USBDevice("USB\\VID_1", MouseInfo, <<TRUE, "Connected">>, t),
      USBDevice("", MouseInfo, <<TRUE, "Connected">>, t),
      USBDevice("", NoInfo, <<FALSE, "Unknown">>, t) }

\* Sequences over S of length at most n.
SeqUpTo(S, n) == UNION { [1..k -> S] : k \in 0..n }

\* _get_current_devices: any list, in any order, with repeated device_ids
\* allowed; the empty list is also what an enumerator returns when it fails
\* (its except clause logs and returns the list built so far).
DeviceSnapshots(t) == SeqUpTo(DeviceEntities(t), MaxSnapshot)

(***************************************************************************)
(* Callback log.                                                           *)
(***************************************************************************)
Event(cb, idx, rec) == [cb |-> cb, idx |-> idx, rec |-> rec]

\* Variant of _find_device_by_id that compares the wrong field (C3).
_find_device_by_id_ByName(devs, device_id) ==
    IF \E i \in 1..Len(devs) : devs[i].name = device_id
    THEN CHOOSE i \in 1..Len(devs) : devs[i].name = device_id
    ELSE 0

(***************************************************************************)
(* DeviceMonitor._find_device_by_id: index of the first record with that   *)
(* device_id, 0 for None.                                                  *)
(***************************************************************************)
_find_device_by_id(devs, device_id) ==
    IF \E i \in 1..Len(devs) : devs[i].device_id = device_id
    THEN CHOOSE i \in 1..Len(devs) :
            /\ devs[i].device_id = device_id
            /\ \A j \in 1..(i-1) : devs[j].device_id # device_id
    ELSE 0

\* The first loop body without its transition test and without reuse of a
\* disconnected record; the two variants below are built from it.
ProcessCurrentDeviceWith(st, current_device, t, always_notify, reuse_gone) ==
    LET i == _find_device_by_id(st.devices, current_device.device_id) IN
    IF i = 0 \/ (~ reuse_gone /\ ~ st.devices[i].is_connected)
    THEN LET n == Len(st.devices) + 1 IN
         [devices |-> Append(st.devices, current_device),
          history |-> Append(st.history, n),
          events  |-> Append(st.events,
                             Event("on_device_connected", n, current_device))]
    ELSE LET existing == st.devices[i]
             changed  == \/ always_notify
                         \/ existing.is_connected # current_device.is_connected
             flipped  == IF changed
                         THEN [existing EXCEPT
                                 !.is_connected = current_device.is_connected,
                                 !.connection_status =
                                     IF current_device.is_connected
                                     THEN "Connected" ELSE "Disconnected"]
                         ELSE existing
             transition == IF changed
                           THEN << Event(IF current_device.is_connected
                                         THEN "on_device_connected"
                                         ELSE "on_device_disconnected",
                                         i, flipped) >>
                           ELSE << >>
             seen == [flipped EXCEPT !.last_seen = t]
         IN  [devices |-> [st.devices EXCEPT ![i] = seen],
              history |-> st.history,
              events  |-> st.events \o transition
                            \o << Event("on_device_updated", i, seen) >>]

\* Variant that appends a reconnecting device as a new record (C4).
ProcessCurrentDevice_ReAppends(st, current_device, t) ==
    ProcessCurrentDeviceWith(st, current_device, t, FALSE, FALSE)

\* Variant that fires the transition callback on every observation (C9).
ProcessCurrentDevice_AlwaysNotifies(st, current_device, t) ==
    ProcessCurrentDeviceWith(st, current_device, t, TRUE, TRUE)

\* Variant of the first loop body that calls on_device_updated only after a
\* transition (C21).
ApplyCurrentDevice_UpdatedOnChange(st, current_device, i, t) ==
    IF i = 0
    THEN LET n == Len(st.devices) + 1 IN
         [devices |-> Append(st.devices, current_device),
          history |-> Append(st.history, n),
          events  |-> Append(st.events,
                             Event("on_device_connected", n, current_device))]
    ELSE LET existing == st.devices[i]
             changed  == existing.is_connected # current_device.is_connected
             flipped  == IF changed
                         THEN [existing EXCEPT
                                 !.is_connected = current_device.is_connected,
                                 !.connection_status =
                                     IF current_device.is_connected
                                     THEN "Connected" ELSE "Disconnected"]
                         ELSE existing
             seen == [flipped EXCEPT !.last_seen = t]
         IN  [devices |-> [st.devices EXCEPT ![i] = seen],
              history |-> st.history,
              events  |-> IF changed
                          THEN st.events
                                 \o << Event(IF current_device.is_connected
                                             THEN "on_device_connected"
                                             ELSE "on_device_disconnected",
                                             i, flipped),
                                       Event("on_device_updated", i, seen) >>
                          ELSE st.events]

(***************************************************************************)
(* DeviceMonitor._update_device_list, first loop body: one snapshot entry, *)
(* after the lookup returned index i (0 for None).  st = [devices,         *)
(* history, events]; t is datetime.now().                                  *)
(***************************************************************************)
ApplyCurrentDevice(st, current_device, i, t) ==
    IF i = 0
    THEN LET n == Len(st.devices) + 1 IN
         [devices |-> Append(st.devices, current_device),
          history |-> Append(st.history, n),
          events  |-> Append(st.events,
                             Event("on_device_connected", n, current_device))]
    ELSE LET existing == st.devices[i]
             changed  == existing.is_connected # current_device.is_connected
             flipped  == IF changed
                         THEN [existing EXCEPT
                                 !.is_connected = current_device.is_connected,
                                 !.connection_status =
                                     IF current_device.is_connected
                                     THEN "Connected" ELSE "Disconnected"]
                         ELSE existing
             transition == IF changed
                           THEN << Event(IF current_device.is_connected
                                         THEN "on_device_connected"
                                         ELSE "on_device_disconnected",
                                         i, flipped) >>
                           ELSE << >>
             seen == [flipped EXCEPT !.last_seen = t]
         IN  [devices |-> [st.devices EXCEPT ![i] = seen],
              history |-> st.history,
              events  |-> st.events \o transition
                            \o << Event("on_device_updated", i, seen) >>]

\* The first loop body: lookup, then the branch.
ProcessCurrentDevice(st, current_device, t) ==
    ApplyCurrentDevice(st, current_device,
                       _find_device_by_id(st.devices, current_device.device_id), t)

RECURSIVE DeviceLoop1(_, _, _, _)
DeviceLoop1(st, current_devices, k, t) ==
    IF k > Len(current_devices) THEN st
    ELSE DeviceLoop1(ProcessCurrentDevice(st, current_devices[k], t),
                     current_devices, k + 1, t)

\* Variant of the second loop body without the is_connected test (C2).
MarkMissingDevice_NoConnectedTest(st, i, current_devices) ==
    LET existing == st.devices[i] IN
    IF ~ \E k \in 1..Len(current_devices) :
            current_devices[k].device_id = existing.device_id
    THEN LET gone == [existing EXCEPT !.is_connected = FALSE,
                                      !.connection_status = "Disconnected"]
         IN  [st EXCEPT !.devices[i] = gone,
                        !.events = Append(@, Event("on_device_disconnected",
                                                   i, gone))]
    ELSE st

(***************************************************************************)
(* Second loop body: the record at index i of self.devices.                *)
(***************************************************************************)
MarkMissingDevice(st, i, current_devices) ==
    LET existing == st.devices[i] IN
    IF /\ ~ \E k \in 1..Len(current_devices) :
              current_devices[k].device_id = existing.device_id
       /\ existing.is_connected
    THEN LET gone == [existing EXCEPT !.is_connected = FALSE,
                                      !.connection_status = "Disconnected"]
         IN  [st EXCEPT !.devices[i] = gone,
                        !.events = Append(@, Event("on_device_disconnected",
                                                   i, gone))]
    ELSE st

RECURSIVE DeviceLoop2(_, _, _)
DeviceLoop2(st, current_devices, i) ==
    IF i > Len(st.devices) THEN st
    ELSE DeviceLoop2(MarkMissingDevice(st, i, current_devices),
                     current_devices, i + 1)

\* Variant of _update_device_list with the two loops exchanged (C8).
_update_device_list_MissingFirst(devs, hist, current_devices, t) ==
    DeviceLoop1(DeviceLoop2([devices |-> devs, history |-> hist,
                             events |-> << >>],
                            current_devices, 1),
                current_devices, 1, t)

_update_device_list(devs, hist, current_devices, t) ==
    DeviceLoop2(DeviceLoop1([devices |-> devs, history |-> hist,
                             events |-> << >>],
                            current_devices, 1, t),
                current_devices, 1)

(***************************************************************************)
(* Operations of DeviceMonitor, each run to completion on one thread.      *)
(***************************************************************************)
\* The body shared by _scan_devices and refresh_devices: fetch, then
\* reconcile, at clock reading now.
ReconcileDevices ==
    /\ focus = "device"
    /\ \E current_devices \in DeviceSnapshots(now) :
         LET r == _update_device_list(devices, device_history,
                                      current_devices, now)
         IN  /\ op' = "reconcile"
             /\ snapshot' = current_devices
             /\ events' = r.events
             /\ devices' = r.devices
             /\ device_history' = r.history
    /\ UNCHANGED <<focus, now, ports, port_history>>
    /\ UNCHANGED pollerVars
    /\ UNCHANGED testerVars

\* One tick of _monitor_loop.
_scan_devices == ReconcileDevices

\* The manual refresh; it differs from the tick in its log messages only.
refresh_devices == ReconcileDevices

\* Variant of clear_history that clears the entity list instead (C29).
DeviceClearHistory_ClearsOnlyDevices ==
    /\ focus = "device"
    /\ op' = "clear_history"
    /\ snapshot' = << >>
    /\ events' = << >>
    /\ devices' = << >>
    /\ UNCHANGED <<focus, now, device_history, ports, port_history>>
    /\ UNCHANGED pollerVars
    /\ UNCHANGED testerVars

\* Variant of clear_history that clears the entity list as well (C12).
DeviceClearHistory_ClearsDevices ==
    /\ focus = "device"
    /\ op' = "clear_history"
    /\ snapshot' = << >>
    /\ events' = << >>
    /\ device_history' = << >>
    /\ devices' = << >>
    /\ UNCHANGED <<focus, now, ports, port_history>>
    /\ UNCHANGED pollerVars
    /\ UNCHANGED testerVars

\* DeviceMonitor.clear_history
DeviceClearHistory ==
    /\ focus = "device"
    /\ op' = "clear_history"
    /\ snapshot' = << >>
    /\ events' = << >>
    /\ device_history' = << >>
    /\ UNCHANGED <<focus, now, devices, ports, port_history>>
    /\ UNCHANGED pollerVars
    /\ UNCHANGED testerVars

(***************************************************************************)
(* PortMonitor.                                                            *)
(***************************************************************************)
PortNames == {"COM3", "COM4"}

\* datetime fields that may be None are << >> or <<t>>.
None == << >>

\* COMPort(...) as the enumerators construct it at time t: through pyserial
\* (variant "pyserial", all descriptive fields filled from ListPortInfo) or
\* through the ImportError fallback (variant "fallback", only device_name).
\* Every enumerator passes is_available=True; is_open and last_used keep
\* their defaults.  baud_rate, data_bits, stop_bits, parity and flow_control
\* keep their defaults for ever (no method writes them) and are left out.
COMPort(port_name, variant, t) ==
    [port_name |-> port_name,
     device_name |-> IF variant = "pyserial" THEN port_name ELSE "Device on port",
     description |-> IF variant = "pyserial" THEN "USB Serial Port" ELSE "",
     manufacturer |-> IF variant = "pyserial" THEN "FTDI" ELSE "",
     product_id |-> IF variant = "pyserial" THEN "6001" ELSE "",
     vendor_id |-> IF variant = "pyserial" THEN "0403" ELSE "",
     serial_number |-> IF variant = "pyserial" THEN "A1" ELSE "",
     is_available |-> TRUE, is_open |-> FALSE, last_used |-> None,
     created_at |-> t]

PortEntities(t) ==
    { COMPort(n, v, t) : n \in PortNames, v \in {"pyserial", "fallback"} }

\* _get_current_ports: the ports the OS lists, each port_name once
\* (comports() and the fallback lists name a device once), in any order.
PortSnapshots(t) ==
    { s \in SeqUpTo(PortEntities(t), MaxSnapshot) :
        \A i, j \in 1..Len(s) : i # j => s[i].port_name # s[j].port_name }

\* PortMonitor._find_port_by_name: index of the first record, 0 for None.
_find_port_by_name(ps, port_name) ==
    IF \E i \in 1..Len(ps) : ps[i].port_name = port_name
    THEN CHOOSE i \in 1..Len(ps) :
            /\ ps[i].port_name = port_name
            /\ \A j \in 1..(i-1) : ps[j].port_name # port_name
    ELSE 0

\* "Weitere Informationen aktualisieren": the six assignments.
RefreshPortInfo(existing, current_port) ==
    [existing EXCEPT !.device_name = current_port.device_name,
                     !.description = current_port.description,
                     !.manufacturer = current_port.manufacturer,
                     !.product_id = current_port.product_id,
                     !.vendor_id = current_port.vendor_id,
                     !.serial_number = current_port.serial_number]

\* PortMonitor._update_port_list, first loop body: one snapshot entry.
\* st = [ports, history, events].
ProcessCurrentPort(st, current_port) ==
    LET i == _find_port_by_name(st.ports, current_port.port_name) IN
    IF i = 0
    THEN LET n == Len(st.ports) + 1 IN
         [ports   |-> Append(st.ports, current_port),
          history |-> Append(st.history, n),
          events  |-> Append(st.events, Event("on_port_added", n, current_port))]
    ELSE LET existing == st.ports[i]
             changed  == existing.is_available # current_port.is_available
             flipped  == IF changed
                         THEN [existing EXCEPT
                                 !.is_available = current_port.is_available]
                         ELSE existing
             transition == IF changed
                           THEN << Event("on_port_status_changed", i, flipped) >>
                           ELSE << >>
         IN  [ports   |-> [st.ports EXCEPT
                             ![i] = RefreshPortInfo(flipped, current_port)],
              history |-> st.history,
              events  |-> st.events \o transition]

RECURSIVE PortLoop1(_, _, _)
PortLoop1(st, current_ports, k) ==
    IF k > Len(current_ports) THEN st
    ELSE PortLoop1(ProcessCurrentPort(st, current_ports[k]), current_ports, k + 1)

\* Second loop body: the record at index i of self.ports.
MarkMissingPort(st, i, current_ports) ==
    LET existing == st.ports[i] IN
    IF /\ ~ \E k \in 1..Len(current_ports) :
              current_ports[k].port_name = existing.port_name
       /\ existing.is_available
    THEN LET gone == [existing EXCEPT !.is_available = FALSE]
         IN  [st EXCEPT !.ports[i] = gone,
                        !.events = Append(@, Event("on_port_status_changed",
                                                   i, gone))]
    ELSE st

RECURSIVE PortLoop2(_, _, _)
PortLoop2(st, current_ports, i) ==
    IF i > Len(st.ports) THEN st
    ELSE PortLoop2(MarkMissingPort(st, i, current_ports), current_ports, i + 1)

_update_port_list(ps, hist, current_ports) ==
    PortLoop2(PortLoop1([ports |-> ps, history |-> hist, events |-> << >>],
                        current_ports, 1),
              current_ports, 1)

\* The fetch succeeded: reconcile.
ReconcilePorts ==
    /\ focus = "port"
    /\ \E current_ports \in PortSnapshots(now) :
         LET r == _update_port_list(ports, port_history, current_ports)
         IN  /\ op' = "reconcile"
             /\ snapshot' = current_ports
             /\ events' = r.events
             /\ ports' = r.ports
             /\ port_history' = r.history
    /\ UNCHANGED <<focus, now, devices, device_history>>
    /\ UNCHANGED pollerVars
    /\ UNCHANGED testerVars

\* _get_current_ports raised (the ImportError fallback calls
\* PlatformUtils.get_available_com_ports inside the except clause, whose
\* errors nothing in the enumerator catches): the caller's except clause
\* logs the error and _update_port_list is not called.
PortFetchRaised ==
    /\ focus = "port"
    /\ op' = "fetch_raised"
    /\ snapshot' = << >>
    /\ events' = << >>
    /\ UNCHANGED <<focus, now, devices, device_history, ports, port_history>>
    /\ UNCHANGED pollerVars
    /\ UNCHANGED testerVars

\* One tick of _monitor_loop.
_scan_ports ==
    \/ ReconcilePorts
    \/ PortFetchRaised

\* The manual refresh; it differs from the tick in its log messages only.
refresh_ports ==
    \/ ReconcilePorts
    \/ PortFetchRaised

\* PortMonitor.clear_history
PortClearHistory ==
    /\ focus = "port"
    /\ op' = "clear_history"
    /\ snapshot' = << >>
    /\ events' = << >>
    /\ port_history' = << >>
    /\ UNCHANGED <<focus, now, devices, device_history, ports>>
    /\ UNCHANGED pollerVars
    /\ UNCHANGED testerVars

\* PortMonitor.open_port, serial.Serial(...) returned: the record with that
\* name, if there is one, is marked open and the slot is called.  Whether
\* the OS opens the port does not depend on the monitor's record of it.
OpenPortOpened ==
    /\ focus = "port"
    /\ \E port_name \in PortNames :
         LET i == _find_port_by_name(ports, port_name) IN
         IF i # 0
         THEN LET port == [ports[i] EXCEPT !.is_open = TRUE,
                                           !.last_used = <<now>>]
              IN  /\ ports' = [ports EXCEPT ![i] = port]
                  /\ events' = << Event("on_port_status_changed", i, port) >>
         ELSE /\ ports' = ports
              /\ events' = << >>
    /\ op' = "open_port"
    /\ snapshot' = << >>
    /\ UNCHANGED <<focus, now, devices, device_history, port_history>>
    /\ UNCHANGED pollerVars
    /\ UNCHANGED testerVars

\* PortMonitor.open_port, `import serial` or serial.Serial(...) raised: the
\* except clause logs the error and returns None.
OpenPortFailed ==
    /\ focus = "port"
    /\ op' = "open_port_failed"
    /\ snapshot' = << >>
    /\ events' = << >>
    /\ UNCHANGED <<focus, now, devices, device_history, ports, port_history>>
    /\ UNCHANGED pollerVars
    /\ UNCHANGED testerVars

open_port ==
    \/ OpenPortOpened
    \/ OpenPortFailed

\* PortMonitor.close_port
close_port ==
    /\ focus = "port"
    /\ \E port_name \in PortNames :
         LET i == _find_port_by_name(ports, port_name) IN
         IF i # 0
         THEN LET port == [ports[i] EXCEPT !.is_open = FALSE]
              IN  /\ ports' = [ports EXCEPT ![i] = port]
                  /\ events' = << Event("on_port_status_changed", i, port) >>
         ELSE /\ ports' = ports
              /\ events' = << >>
    /\ op' = "close_port"
    /\ snapshot' = << >>
    /\ UNCHANGED <<focus, now, devices, device_history, port_history>>
    /\ UNCHANGED pollerVars
    /\ UNCHANGED testerVars

(***************************************************************************)
(* The poller of DeviceMonitor and the thread that calls the monitor (the  *)
(* UI thread): start_monitoring, stop_monitoring, _monitor_loop,           *)
(* _scan_devices and refresh_devices as the steps of concurrent threads.   *)
(* PortMonitor's start_monitoring, stop_monitoring and _monitor_loop are   *)
(* the same text with the port names.  The code takes no lock anywhere.    *)
(* A thread can be preempted anywhere; the grain here is one loop of       *)
(* _update_device_list per step.  The callback log is not kept here        *)
(* (events stays empty): a callback that returns changes nothing of the    *)
(* monitor, and one that raises is a step of its own.                      *)
(*                                                                         *)
(* Thread 0 is the calling thread; 1..MaxThreads are Thread objects that   *)
(* start_monitoring creates.  Positions:                                   *)
(*   idle     caller: outside the monitor                                  *)
(*   join     caller: in monitor_thread.join(timeout=2.0)                  *)
(*   unborn   worker: not created                                          *)
(*   while    worker: at the test of `while self.is_monitoring`            *)
(*   fetch    before _get_current_devices()                                *)
(*   loop1    in _update_device_list, before the first loop                *)
(*   loop2    in _update_device_list, before the second loop               *)
(*   except   in the except clause of _scan_devices / refresh_devices      *)
(*   sleep    worker: in time.sleep(self.monitor_interval)                 *)
(*   exited   worker: _monitor_loop returned                               *)
(***************************************************************************)
Caller == 0

Workers == 1..MaxThreads

ReconcilePcs == {"loop1", "loop2"}

\* The first loop before its first entry: k is the entry at hand, looked
\* tells whether _find_device_by_id has returned for it, i is what it
\* returned (the index of the record, 0 for None).
AtFirstEntry == [k |-> 1, looked |-> FALSE, i |-> 0]

TickPcs == {"fetch", "except"} \cup ReconcilePcs

\* threading.Thread.is_alive()
is_alive(w) == tpc[w] \notin {"unborn", "exited"}

\* What _get_current_devices returns to a polling thread: nothing, or the
\* one device.
PollSnapshots ==
    { << >>, << USBDevice("", NoInfo, <<TRUE, "Connected">>, now) >> }

dataFrame ==
    UNCHANGED <<focus, now, op, snapshot, ports, port_history, cursor,
                testerVars>>

\* Variant of the loop test that never reads the flag (C7).
WhileTest_Forever(w) ==
    /\ tpc[w] = "while"
    /\ tpc' = [tpc EXCEPT ![w] = "fetch"]
    /\ events' = << >>
    /\ UNCHANGED <<is_monitoring, monitor_thread, loc, devices, device_history>>
    /\ dataFrame

\* _monitor_loop: `while self.is_monitoring:`
WhileTest(w) ==
    /\ tpc[w] = "while"
    /\ tpc' = [tpc EXCEPT ![w] = IF is_monitoring THEN "fetch" ELSE "exited"]
    /\ events' = << >>
    /\ UNCHANGED <<is_monitoring, monitor_thread, loc, devices, device_history>>
    /\ dataFrame

\* current_devices = self._get_current_devices()
FetchStep(th) ==
    /\ tpc[th] = "fetch"
    /\ \E current_devices \in PollSnapshots :
         loc' = [loc EXCEPT ![th] = current_devices]
    /\ tpc' = [tpc EXCEPT ![th] = "loop1"]
    /\ events' = << >>
    /\ UNCHANGED <<is_monitoring, monitor_thread, devices, device_history>>
    /\ dataFrame

\* The first loop of _update_device_list.
Loop1Step(th) ==
    /\ tpc[th] = "loop1"
    /\ LET r == DeviceLoop1([devices |-> devices, history |-> device_history,
                             events |-> << >>], loc[th], 1, now)
       IN  /\ devices' = r.devices
           /\ device_history' = r.history
           /\ events' = << >>
    /\ tpc' = [tpc EXCEPT ![th] = "loop2"]
    /\ UNCHANGED <<is_monitoring, monitor_thread, loc>>
    /\ dataFrame

\* The second loop; then a worker goes to sleep and the caller returns.
Loop2Step(th) ==
    /\ tpc[th] = "loop2"
    /\ LET r == DeviceLoop2([devices |-> devices, history |-> device_history,
                             events |-> << >>], loc[th], 1)
       IN  /\ devices' = r.devices
           /\ events' = << >>
    /\ loc' = [loc EXCEPT ![th] = << >>]
    /\ tpc' = [tpc EXCEPT ![th] = IF th = Caller THEN "idle" ELSE "sleep"]
    /\ UNCHANGED <<is_monitoring, monitor_thread, device_history>>
    /\ dataFrame

\* _get_current_ports() raises (PortMonitor: the ImportError fallback runs
\* PlatformUtils.get_available_com_ports() inside the except clause, and
\* nothing in the enumerator catches its errors).  _scan_ports is the text
\* of _scan_devices: control goes to its except clause.
FetchRaised(th) ==
    /\ tpc[th] = "fetch"
    /\ tpc' = [tpc EXCEPT ![th] = "except"]
    /\ events' = << >>
    /\ UNCHANGED <<is_monitoring, monitor_thread, loc, devices, device_history>>
    /\ dataFrame

\* A callback raises in the first loop, while entry k of the snapshot is
\* handled: the entries before k are done, entry k is done up to the call
\* (the record is appended, or its flag is flipped; last_seen is written at
\* the reading of the clock the record already carries).
Loop1Raised(th) ==
    /\ tpc[th] = "loop1"
    /\ \E k \in 1..Len(loc[th]) :
         LET r == DeviceLoop1([devices |-> devices, history |-> device_history,
                               events |-> << >>], SubSeq(loc[th], 1, k), 1, now)
         IN  /\ devices' = r.devices
             /\ device_history' = r.history
             /\ events' = << >>
    /\ tpc' = [tpc EXCEPT ![th] = "except"]
    /\ loc' = [loc EXCEPT ![th] = << >>]
    /\ UNCHANGED <<is_monitoring, monitor_thread>>
    /\ dataFrame

\* The second loop over the first n records only.
RECURSIVE MarkMissingUpTo(_, _, _)
MarkMissingUpTo(st, current_devices, n) ==
    IF n = 0 THEN st
    ELSE MarkMissingDevice(MarkMissingUpTo(st, current_devices, n - 1),
                           n, current_devices)

\* on_device_disconnected raises in the second loop, at record n: the
\* records up to n are marked, the later ones are not looked at.
Loop2Raised(th) ==
    /\ tpc[th] = "loop2"
    /\ \E n \in 1..Len(devices) :
         /\ devices[n].is_connected
         /\ ~ \E k \in 1..Len(loc[th]) :
                 loc[th][k].device_id = devices[n].device_id
         /\ LET r == MarkMissingUpTo([devices |-> devices,
                                      history |-> device_history,
                                      events |-> << >>], loc[th], n)
            IN  /\ devices' = r.devices
                /\ events' = << >>
    /\ tpc' = [tpc EXCEPT ![th] = "except"]
    /\ loc' = [loc EXCEPT ![th] = << >>]
    /\ UNCHANGED <<is_monitoring, monitor_thread, device_history>>
    /\ dataFrame

\* Variant of the except clause that lets the error end the thread (C13).
ExceptStep_Exits(th) ==
    /\ tpc[th] = "except"
    /\ tpc' = [tpc EXCEPT ![th] = IF th = Caller THEN "idle" ELSE "exited"]
    /\ events' = << >>
    /\ UNCHANGED <<is_monitoring, monitor_thread, loc, devices, device_history>>
    /\ dataFrame

\* `except Exception as e: self.logger.error(...)`: _scan_devices returns
\* to the loop, which goes to its sleep; refresh_devices returns.
ExceptStep(th) ==
    /\ tpc[th] = "except"
    /\ tpc' = [tpc EXCEPT ![th] = IF th = Caller THEN "idle" ELSE "sleep"]
    /\ events' = << >>
    /\ UNCHANGED <<is_monitoring, monitor_thread, loc, devices, device_history>>
    /\ dataFrame

\* time.sleep(self.monitor_interval) returns.
WakeStep(w) ==
    /\ tpc[w] = "sleep"
    /\ tpc' = [tpc EXCEPT ![w] = "while"]
    /\ events' = << >>
    /\ UNCHANGED <<is_monitoring, monitor_thread, loc, devices, device_history>>
    /\ dataFrame

\* A step of worker w.
WorkerStep(w) ==
    \/ WhileTest(w)
    \/ FetchStep(w)
    \/ Loop1Step(w)
    \/ Loop2Step(w)
    \/ FetchRaised(w)
    \/ Loop1Raised(w)
    \/ Loop2Raised(w)
    \/ ExceptStep(w)
    \/ WakeStep(w)

\* DeviceMonitor.start_monitoring, called while monitoring: returns.
StartWhileMonitoring ==
    /\ tpc[Caller] = "idle"
    /\ is_monitoring
    /\ UNCHANGED vars

\* DeviceMonitor.start_monitoring otherwise: sets the flag, creates and
\* starts a Thread (the identifier of a thread that does not run is reused).
StartWorker ==
    /\ tpc[Caller] = "idle"
    /\ ~ is_monitoring
    /\ \E w \in Workers : ~ is_alive(w)
    /\ LET w == CHOOSE x \in Workers :
                  ~ is_alive(x) /\ \A y \in Workers : ~ is_alive(y) => x <= y
       IN  /\ is_monitoring' = TRUE
           /\ monitor_thread' = w
           /\ tpc' = [tpc EXCEPT ![w] = "while"]
    /\ events' = << >>
    /\ UNCHANGED <<loc, devices, device_history>>
    /\ dataFrame

start_monitoring ==
    \/ StartWhileMonitoring
    \/ StartWorker

\* DeviceMonitor.stop_monitoring: clears the flag and joins the thread
\* when there is one and it is alive.
stop_monitoring ==
    /\ tpc[Caller] = "idle"
    /\ is_monitoring' = FALSE
    /\ tpc' = [tpc EXCEPT ![Caller] =
                 IF monitor_thread # 0 /\ is_alive(monitor_thread)
                 THEN "join" ELSE "idle"]
    /\ events' = << >>
    /\ UNCHANGED <<monitor_thread, loc, devices, device_history>>
    /\ dataFrame

\* join(timeout=2.0) returns because the thread has ended.
JoinThreadEnded ==
    /\ tpc[Caller] = "join"
    /\ ~ is_alive(monitor_thread)
    /\ tpc' = [tpc EXCEPT ![Caller] = "idle"]
    /\ events' = << >>
    /\ UNCHANGED <<is_monitoring, monitor_thread, loc, devices, device_history>>
    /\ dataFrame

\* join(timeout=2.0) returns because the 2 s are over and the thread is
\* still in its sleep (2 s; PortMonitor's 3 s) or in a fetch.
JoinTimedOut ==
    /\ tpc[Caller] = "join"
    /\ tpc[monitor_thread] \in {"sleep", "fetch"}
    /\ tpc' = [tpc EXCEPT ![Caller] = "idle"]
    /\ events' = << >>
    /\ UNCHANGED <<is_monitoring, monitor_thread, loc, devices, device_history>>
    /\ dataFrame

\* DeviceMonitor.refresh_devices is called on the calling thread.
RefreshCall ==
    /\ tpc[Caller] = "idle"
    /\ tpc' = [tpc EXCEPT ![Caller] = "fetch"]
    /\ events' = << >>
    /\ UNCHANGED <<is_monitoring, monitor_thread, loc, devices, device_history>>
    /\ dataFrame

\* A step of the calling thread.
CallerStep ==
    \/ start_monitoring
    \/ stop_monitoring
    \/ JoinThreadEnded
    \/ JoinTimedOut
    \/ RefreshCall
    \/ FetchStep(Caller)
    \/ Loop1Step(Caller)
    \/ Loop2Step(Caller)
    \/ FetchRaised(Caller)
    \/ Loop1Raised(Caller)
    \/ Loop2Raised(Caller)
    \/ ExceptStep(Caller)

PollerInit ==
    /\ focus = "device"
    /\ now = 0
    /\ op = "init"
    /\ snapshot = << >>
    /\ events = << >>
    /\ devices = << >>
    /\ device_history = << >>
    /\ ports = << >>
    /\ port_history = << >>
    /\ is_monitoring = FALSE
    /\ monitor_thread = 0
    /\ tpc = [th \in {Caller} \cup Workers |->
                IF th = Caller THEN "idle" ELSE "unborn"]
    /\ loc = [th \in {Caller} \cup Workers |-> << >>]
    /\ cursor = [th \in {Caller} \cup Workers |-> AtFirstEntry]
    /\ TesterConstructed

PollerNext ==
    \/ CallerStep
    \/ \E w \in Workers : WorkerStep(w)

PollerSpec == PollerInit /\ [][PollerNext]_vars

\* The interpreter schedules every thread that can run, and a sleep ends.
FairPollerSpec ==
    PollerSpec /\ \A w \in Workers : WF_vars(WorkerStep(w))

(***************************************************************************)
(* LiveSpec: the poller over snapshots of two devices, for what a fairly   *)
(* scheduled worker brings about in the end.  The device enumerators catch *)
(* their own errors and return a list, so a fetch does not raise here; a   *)
(* registered callback can (Loop1Raised, Loop2Raised).                     *)
(***************************************************************************)
\* The device whose record is followed.
LiveKey == "USB\\VID_1"

\* What _get_current_devices returns to the poller: lists of the device
\* LiveKey and of one other device.
LiveSnapshots ==
    SeqUpTo({ USBDevice(LiveKey, MouseInfo, <<TRUE, "Connected">>, now),
              USBDevice("", MouseInfo, <<TRUE, "Connected">>, now) },
            MaxSnapshot)

\* current_devices = self._get_current_devices()
LiveFetch(th) ==
    /\ tpc[th] = "fetch"
    /\ \E current_devices \in LiveSnapshots :
         loc' = [loc EXCEPT ![th] = current_devices]
    /\ tpc' = [tpc EXCEPT ![th] = "loop1"]
    /\ events' = << >>
    /\ UNCHANGED <<is_monitoring, monitor_thread, devices, device_history>>
    /\ dataFrame

\* A step of worker w.
LiveWorkerStep(w) ==
    \/ WhileTest(w)
    \/ LiveFetch(w)
    \/ Loop1Step(w)
    \/ Loop2Step(w)
    \/ Loop1Raised(w)
    \/ Loop2Raised(w)
    \/ ExceptStep(w)
    \/ WakeStep(w)

LiveNext ==
    \/ start_monitoring
    \/ stop_monitoring
    \/ JoinThreadEnded
    \/ JoinTimedOut
    \/ \E w \in Workers : LiveWorkerStep(w)

\* The interpreter schedules every thread that can run, and a sleep ends.
LiveSpec ==
    /\ PollerInit
    /\ [][LiveNext]_vars
    /\ \A w \in Workers : WF_vars(LiveWorkerStep(w))

(***************************************************************************)
(* RaceSpec: the poller and a manual refresh with the first loop of        *)
(* _update_device_list followed entry by entry: the lookup (357) and the   *)
(* branch on its result (359-383) are two steps, and another thread can    *)
(* run between them.  The second loop stays one step.                      *)
(***************************************************************************)
\* existing_device = self._find_device_by_id(current_device.device_id)
FindEntry(th) ==
    /\ tpc[th] = "loop1"
    /\ cursor[th].k <= Len(loc[th])
    /\ ~ cursor[th].looked
    /\ cursor' = [cursor EXCEPT ![th] =
                    [@ EXCEPT !.looked = TRUE,
                              !.i = _find_device_by_id(devices,
                                        loc[th][cursor[th].k].device_id)]]
    /\ events' = << >>
    /\ UNCHANGED <<is_monitoring, monitor_thread, tpc, loc, devices,
                   device_history>>
    /\ UNCHANGED <<focus, now, op, snapshot, ports, port_history, testerVars>>

\* The branch on existing_device, then the next entry.
ApplyEntry(th) ==
    /\ tpc[th] = "loop1"
    /\ cursor[th].looked
    /\ LET r == ApplyCurrentDevice([devices |-> devices,
                                    history |-> device_history,
                                    events |-> << >>],
                                   loc[th][cursor[th].k], cursor[th].i, now)
       IN  /\ devices' = r.devices
           /\ device_history' = r.history
    /\ cursor' = [cursor EXCEPT ![th] =
                    [k |-> cursor[th].k + 1, looked |-> FALSE, i |-> 0]]
    /\ events' = << >>
    /\ UNCHANGED <<is_monitoring, monitor_thread, tpc, loc>>
    /\ UNCHANGED <<focus, now, op, snapshot, ports, port_history, testerVars>>

\* The first loop has no entry left.
Loop1Done(th) ==
    /\ tpc[th] = "loop1"
    /\ cursor[th].k > Len(loc[th])
    /\ tpc' = [tpc EXCEPT ![th] = "loop2"]
    /\ cursor' = [cursor EXCEPT ![th] = AtFirstEntry]
    /\ events' = << >>
    /\ UNCHANGED <<is_monitoring, monitor_thread, loc, devices, device_history>>
    /\ UNCHANGED <<focus, now, op, snapshot, ports, port_history, testerVars>>

RaceStep(th) ==
    \/ FetchStep(th)
    \/ FindEntry(th)
    \/ ApplyEntry(th)
    \/ Loop1Done(th)
    \/ Loop2Step(th)

RaceNext ==
    \/ start_monitoring
    \/ RefreshCall
    \/ RaceStep(Caller)
    \/ \E w \in Workers : WhileTest(w) \/ WakeStep(w) \/ RaceStep(w)

RaceSpec == PollerInit /\ [][RaceNext]_vars

(***************************************************************************)
(* The speed tester.                                                       *)
(*                                                                         *)
(*   src/src/core/speed_test.py       USBSpeedTester, SpeedTestResult      *)
(*                                                                         *)
(* DevicePanel creates one USBSpeedTester and registers the three callback *)
(* slots (device_panel.py 287-290); the calling thread is the UI thread.   *)
(* A slot is a callable: a call to it returns or raises.  The code takes   *)
(* no lock.  Positions of a probe thread in _run_speed_test:               *)
(*   unborn   not created                                                  *)
(*   started  before on_test_started (214)                                 *)
(*   generate before _generate_test_data (218)                             *)
(*   write    before the write phase (222)                                 *)
(*   check1   at `if not self.is_testing` (229)                            *)
(*   read     before the read phase (233)                                  *)
(*   check2   at `if not self.is_testing` (246)                            *)
(*   report   before the speeds are computed (250)                         *)
(*   handler  in `except Exception as e` (273)                             *)
(*   finally  in the finally clause (292)                                  *)
(*   ended    the thread has ended                                         *)
(* and of the calling thread: idle, or join (in join(timeout=2.0)).        *)
(* Speeds are in thousandths of a MB/s, times in seconds.                  *)
(***************************************************************************)
\* Python values, as far as _generate_test_data computes with them.
PyInt(n) == [type |-> "int", n |-> n]

PyBytes(n) == [type |-> "bytes", n |-> n]

PyRaised(e) == [type |-> "raised", n |-> 0, e |-> e]

IsRaised(x) == x.type = "raised"

MiB == 1024 * 1024

Min(a, b) == IF a <= b THEN a ELSE b

\* os.urandom(n): n random bytes.
urandom(n) == PyBytes(n)

\* x[:n]
SliceTo(x, n) ==
    IF IsRaised(x) THEN x
    ELSE IF x.type = "bytes" THEN PyBytes(Min(x.n, n))
    ELSE PyRaised("'int' object is not subscriptable")

\* x * y, the left operand evaluated first.
Times(x, y) ==
    IF IsRaised(x) THEN x
    ELSE IF IsRaised(y) THEN y
    ELSE IF x.type = "bytes" /\ y.type = "int" THEN PyBytes(x.n * y.n)
    ELSE IF x.type = "int" /\ y.type = "bytes" THEN PyBytes(x.n * y.n)
    ELSE IF x.type = "int" /\ y.type = "int" THEN PyInt(x.n * y.n)
    ELSE PyRaised("can't multiply sequence by non-int")

\* A subscription binds tighter than `*`: the slice is taken of the
\* parenthesised integer.
_generate_test_data(size_mb) ==
    LET size_bytes == size_mb * MiB
    IN  Times(urandom(Min(size_bytes, MiB)),
              SliceTo(PyInt(size_bytes \div MiB + 1), size_bytes))

\* test_size_mb as DevicePanel passes it (QInputDialog.getDouble, 1..1000).
TestSizes == {1, 100}

\* Seconds a phase can take, as time.time() measures them.
PhaseTimes == {0, 2}

\* SpeedTestResult, and the three calls.
SpeedTestResult(size_mb, w, r, success, msg) ==
    [test_file_size_mb |-> size_mb, write_speed_mbps |-> w,
     read_speed_mbps |-> r, average_speed_mbps |-> (w + r) \div 2,
     success |-> success, error_message |-> msg]

NoResult == SpeedTestResult(0, 0, 0, FALSE, "")

Started == [cb |-> "on_test_started", percent |-> 0, result |-> NoResult]

Progress(p) == [cb |-> "on_test_progress", percent |-> p, result |-> NoResult]

Completed(res) == [cb |-> "on_test_completed", percent |-> 0, result |-> res]

\* Variant of the speed of a phase that divides the time by the size (C24).
Speed_Inverted(size_mb, seconds) ==
    IF seconds > 0 /\ size_mb > 0 THEN (seconds * 1000) \div size_mb ELSE 0

\* test_size_mb / seconds if seconds > 0 else 0
Speed(size_mb, seconds) ==
    IF seconds > 0 THEN (size_mb * 1000) \div seconds ELSE 0

\* f"Fehler beim Geschwindigkeitstest: {e}", as the pair of its two parts.
ErrorMsg(e) == <<"Fehler beim Geschwindigkeitstest: ", e>>

\* What a step meets: whether the callbacks it calls raise, whether its
\* file operation raises, and the seconds the file operation takes.
Outcomes ==
    [cb : {"returns", "raises", "second_raises"}, io : {"ok", "raises"},
     seconds : PhaseTimes]

Goto(f, pc) == [f EXCEPT !.pc = pc]

Raise(f, e) == [f EXCEPT !.pc = "handler", !.e = e]

\* Variant of the except clause that reports nothing (C14).
RunHandler_Silent(f) ==
    [frame |-> Goto(f, "finally"), made |-> << >>]

\* except Exception as e: the failure result goes to on_test_completed;
\* whether that call returns or raises, the finally clause is next.
RunHandler(f) ==
    [frame |-> Goto(f, "finally"),
     made  |-> << Completed(SpeedTestResult(f.test_size_mb, 0, 0, FALSE,
                                            ErrorMsg(f.e))) >>]

\* One step of _run_speed_test from frame f, with the flag as it is read:
\* the next frame and the calls made to the slots.
RunStep(f, flag, out) ==
    CASE f.pc = "started" ->
           [frame |-> IF out.cb = "raises" THEN Raise(f, "callback")
                      ELSE Goto(f, "generate"),
            made  |-> << Started >>]
      [] f.pc = "generate" ->
           LET test_data == _generate_test_data(f.test_size_mb)
           IN  [frame |-> IF IsRaised(test_data) THEN Raise(f, test_data.e)
                          ELSE Goto(f, "write"),
                made  |-> << >>]
      [] f.pc = "write" ->
           [frame |-> IF out.cb = "raises" THEN Raise(f, "callback")
                      ELSE IF out.io = "raises" THEN Raise(f, "OSError")
                      ELSE [f EXCEPT !.pc = "check1",
                                     !.write_time = out.seconds],
            made  |-> << Progress(25) >>]
      [] f.pc = "check1" ->
           [frame |-> IF ~ flag THEN Goto(f, "finally") ELSE Goto(f, "read"),
            made  |-> << >>]
      [] f.pc = "read" ->
           [frame |-> IF out.cb = "raises" THEN Raise(f, "callback")
                      ELSE IF out.io = "raises" THEN Raise(f, "OSError")
                      ELSE [f EXCEPT !.pc = "check2",
                                     !.read_time = out.seconds],
            made  |-> << Progress(75) >>]
      [] f.pc = "check2" ->
           [frame |-> IF ~ flag THEN Goto(f, "finally")
                      ELSE Goto(f, "report"),
            made  |-> << >>]
      [] f.pc = "report" ->
           LET result == SpeedTestResult(f.test_size_mb,
                             Speed(f.test_size_mb, f.write_time),
                             Speed(f.test_size_mb, f.read_time), TRUE, "")
           IN  IF out.cb = "raises"
               THEN [frame |-> Raise(f, "callback"),
                     made  |-> << Progress(100) >>]
               ELSE [frame |-> IF out.cb = "second_raises"
                               THEN Raise(f, "callback")
                               ELSE Goto(f, "finally"),
                     made  |-> << Progress(100), Completed(result) >>]
      [] f.pc = "handler" -> RunHandler(f)
      [] f.pc = "finally" ->
           [frame |-> Goto(f, "ended"), made |-> << >>]

\* threading.Thread.is_alive() of a probe thread
probe_is_alive(w) == probe[w].pc \notin {"unborn", "ended"}

\* Everything outside the probe, but op.
monitorFrame ==
    UNCHANGED <<focus, now, snapshot, events, devices, device_history,
                ports, port_history, pollerVars, call>>

\* A probe thread runs its next step.
_run_speed_test(w) ==
    /\ probe_is_alive(w)
    /\ \E out \in Outcomes :
         LET r == RunStep(probe[w], is_testing, out)
         IN  /\ probe' = [probe EXCEPT ![w] = r.frame]
             /\ calls' = [calls EXCEPT ![w] = calls[w] \o r.made]
    /\ is_testing' = IF probe[w].pc = "finally" THEN FALSE ELSE is_testing
    /\ op' = "_run_speed_test"
    /\ UNCHANGED current_test_thread
    /\ monitorFrame

\* Variant of the guard that starts a thread all the same (C15).
StartWhileTesting_Starts ==
    /\ probe[0].pc = "idle"
    /\ is_testing
    /\ \E w \in ProbeThreads :
         /\ probe[w].pc = "unborn"
         /\ \A v \in ProbeThreads : probe[v].pc = "unborn" => w <= v
         /\ current_test_thread' = w
         /\ probe' = [probe EXCEPT ![w] = [NoFrame("started") EXCEPT
                                             !.test_size_mb = 1]]
    /\ op' = "start_speed_test"
    /\ UNCHANGED <<is_testing, calls>>
    /\ monitorFrame

\* start_speed_test, `if self.is_testing: return`.
StartWhileTesting ==
    /\ probe[0].pc = "idle"
    /\ is_testing
    /\ op' = "start_speed_test"
    /\ UNCHANGED testerVars
    /\ monitorFrame

\* start_speed_test past the guard: sets the flag, creates the Thread and
\* starts it.
StartProbe ==
    /\ probe[0].pc = "idle"
    /\ ~ is_testing
    /\ \E w \in ProbeThreads, size_mb \in TestSizes :
         /\ probe[w].pc = "unborn"
         /\ \A v \in ProbeThreads : probe[v].pc = "unborn" => w <= v
         /\ current_test_thread' = w
         /\ probe' = [probe EXCEPT ![w] = [NoFrame("started") EXCEPT
                                             !.test_size_mb = size_mb]]
    /\ is_testing' = TRUE
    /\ op' = "start_speed_test"
    /\ UNCHANGED calls
    /\ monitorFrame

start_speed_test == StartWhileTesting \/ StartProbe

\* stop_speed_test: clears the flag, then joins the thread if it is alive.
\* (stopped notes, for the properties, which threads were alive at a stop.)
stop_speed_test ==
    /\ probe[0].pc = "idle"
    /\ is_testing' = FALSE
    /\ probe' = [th \in DOMAIN probe |->
                   IF th = 0
                   THEN IF current_test_thread # 0
                           /\ probe_is_alive(current_test_thread)
                        THEN Goto(probe[0], "join") ELSE probe[0]
                   ELSE IF probe_is_alive(th)
                        THEN [probe[th] EXCEPT !.stopped = TRUE]
                        ELSE probe[th]]
    /\ op' = "stop_speed_test"
    /\ UNCHANGED <<current_test_thread, calls>>
    /\ monitorFrame

\* join(timeout=2.0) returns because the thread has ended.
ProbeJoinEnded ==
    /\ probe[0].pc = "join"
    /\ ~ probe_is_alive(current_test_thread)
    /\ probe' = [probe EXCEPT ![0] = Goto(probe[0], "idle")]
    /\ op' = "stop_speed_test"
    /\ UNCHANGED <<is_testing, current_test_thread, calls>>
    /\ monitorFrame

\* Positions where the thread is in a callback or in file or random I/O.
BlockingPcs == {"started", "generate", "write", "read", "report", "handler"}

\* join(timeout=2.0) returns after 2 seconds, the thread still running.
ProbeJoinTimedOut ==
    /\ probe[0].pc = "join"
    /\ probe[current_test_thread].pc \in BlockingPcs
    /\ probe' = [probe EXCEPT ![0] = Goto(probe[0], "idle")]
    /\ op' = "stop_speed_test"
    /\ UNCHANGED <<is_testing, current_test_thread, calls>>
    /\ monitorFrame

TesterInit ==
    /\ focus = "device"
    /\ now = 0
    /\ op = "init"
    /\ snapshot = << >>
    /\ events = << >>
    /\ devices = << >>
    /\ device_history = << >>
    /\ ports = << >>
    /\ port_history = << >>
    /\ is_monitoring = FALSE
    /\ monitor_thread = 0
    /\ tpc = [th \in {Caller} \cup Workers |->
                IF th = Caller THEN "idle" ELSE "unborn"]
    /\ loc = [th \in {Caller} \cup Workers |-> << >>]
    /\ cursor = [th \in {Caller} \cup Workers |-> AtFirstEntry]
    /\ TesterConstructed

TesterNext ==
    \/ start_speed_test
    \/ stop_speed_test
    \/ ProbeJoinEnded
    \/ ProbeJoinTimedOut
    \/ \E w \in ProbeThreads : _run_speed_test(w)

TesterSpec == TesterInit /\ [][TesterNext]_vars

\* The interpreter schedules every thread that can run.
FairTesterSpec ==
    TesterSpec /\ \A w \in ProbeThreads : WF_vars(_run_speed_test(w))

(***************************************************************************)
(* CalcSpec: the computations of USBSpeedTester that depend on their       *)
(* arguments only, each evaluated on arguments drawn from a bounded set:   *)
(* get_usb_speed_rating (313-326) and the speeds of the result that        *)
(* _run_speed_test builds from test_size_mb, write_time and read_time      *)
(* (250-265).  Speeds are in thousandths of a MB/s.                        *)
(***************************************************************************)
\* Variant of get_usb_speed_rating with strict comparisons (C25).
get_usb_speed_rating_Strict(speed_mbps) ==
    IF speed_mbps > 400000 THEN "Excellent (USB 3.0+)"
    ELSE IF speed_mbps > 200000 THEN "Very Good (USB 3.0)"
    ELSE IF speed_mbps > 60000 THEN "Good (USB 2.0 High-Speed)"
    ELSE IF speed_mbps > 10000 THEN "Moderate (USB 2.0)"
    ELSE IF speed_mbps > 1000 THEN "Slow (USB 1.1)"
    ELSE "Very Slow"

\* The returned strings without their leading pictograph.
get_usb_speed_rating(speed_mbps) ==
    IF speed_mbps >= 400000 THEN "Excellent (USB 3.0+)"
    ELSE IF speed_mbps >= 200000 THEN "Very Good (USB 3.0)"
    ELSE IF speed_mbps >= 60000 THEN "Good (USB 2.0 High-Speed)"
    ELSE IF speed_mbps >= 10000 THEN "Moderate (USB 2.0)"
    ELSE IF speed_mbps >= 1000 THEN "Slow (USB 1.1)"
    ELSE "Very Slow"

\* The thresholds of the rating in MB/s, and the speeds tried: at, just
\* above, just below and half way above each threshold.
Thresholds == {1, 10, 60, 200, 400}

RatingInputs ==
    {0, 1, 500} \cup
    UNION { {1000 * T - 1, 1000 * T, 1000 * T + 1, 1500 * T} : T \in Thresholds }

\* Sizes and phase times tried for the speeds of a result.
CalcSizes == {1, 50, 100, 1000}

CalcTimes == {0, 1, 2, 4, 5}

\* speed_tester.get_usb_speed_rating(speed_mbps)
RateSpeed ==
    /\ \E speed_mbps \in RatingInputs :
         call' = [fn |-> "get_usb_speed_rating", args |-> <<speed_mbps>>,
                  ret |-> get_usb_speed_rating(speed_mbps)]
    /\ UNCHANGED <<focus, now, op, snapshot, events, devices, device_history,
                   ports, port_history, pollerVars>>
    /\ UNCHANGED <<is_testing, current_test_thread, probe, calls>>

\* Lines 250-265 on test_size_mb, write_time and read_time.
ComputeSpeeds ==
    /\ \E size_mb \in CalcSizes, write_time \in CalcTimes,
          read_time \in CalcTimes :
         call' = [fn |-> "SpeedTestResult",
                  args |-> <<size_mb, write_time, read_time>>,
                  ret |-> SpeedTestResult(size_mb, Speed(size_mb, write_time),
                                          Speed(size_mb, read_time), TRUE, "")]
    /\ UNCHANGED <<focus, now, op, snapshot, events, devices, device_history,
                   ports, port_history, pollerVars>>
    /\ UNCHANGED <<is_testing, current_test_thread, probe, calls>>

CalcNext ==
    \/ RateSpeed
    \/ ComputeSpeeds

CalcSpec == TesterInit /\ [][CalcNext]_vars

(***************************************************************************)
(* Spec: the operations of one monitor, one after the other.  The poller's *)
(* control state is not tracked here.                                     *)
(***************************************************************************)
Init ==
    /\ focus \in {"device", "port"}
    /\ now = 0
    /\ op = "init"
    /\ snapshot = << >>
    /\ events = << >>
    /\ devices = << >>
    /\ device_history = << >>
    /\ ports = << >>
    /\ port_history = << >>
    /\ is_monitoring = FALSE
    /\ monitor_thread = 0
    /\ tpc = [th \in {Caller} \cup Workers |->
                IF th = Caller THEN "idle" ELSE "unborn"]
    /\ loc = [th \in {Caller} \cup Workers |-> << >>]
    /\ cursor = [th \in {Caller} \cup Workers |-> AtFirstEntry]
    /\ TesterConstructed

Next ==
    \/ _scan_devices
    \/ refresh_devices
    \/ DeviceClearHistory
    \/ _scan_ports
    \/ refresh_ports
    \/ PortClearHistory
    \/ open_port
    \/ close_port

Spec == Init /\ [][Next]_vars

(***************************************************************************)
(* TimedSpec: the operations of Spec with a clock that advances.  Every    *)
(* datetime.now() of an operation reads the clock (now); the enumerators   *)
(* pass no timestamp, so USBDevice.__post_init__ reads the clock twice,    *)
(* for first_seen and then for last_seen, during the fetch.  Time is       *)
(* counted in clock readings 0..MaxClock and never goes back.              *)
(***************************************************************************)
\* Variant of __post_init__ that reads last_seen before first_seen (C22).
Readings_LastSeenFirst(t) ==
    { r \in {t} \X (0..t) : r[2] + 1 >= t }

\* The two readings of __post_init__ in a fetch that ends at t: the second
\* is t, the first is t or the reading before.
Readings(t) ==
    { r \in (0..t) \X {t} : r[1] + 1 >= t }

TimedDeviceEntities(t) ==
    UNION { { [d EXCEPT !.first_seen = r[1], !.last_seen = r[2]] :
                d \in DeviceEntities(t) } : r \in Readings(t) }

TimedDeviceSnapshots(t) == SeqUpTo(TimedDeviceEntities(t), MaxSnapshot)

\* The port snapshots of the pyserial enumerator (created_at is read once,
\* at t; the descriptive fields play no part in the timestamps).
TimedPortSnapshots(t) ==
    { s \in PortSnapshots(t) :
        \A k \in 1..Len(s) : s[k].device_name = s[k].port_name }

\* The operations below are those of Spec at clock reading now, without
\* the log of the pass (snapshot and events stay empty).

\* A tick or a manual refresh of the device monitor.
TimedReconcileDevices ==
    /\ focus = "device"
    /\ \E current_devices \in TimedDeviceSnapshots(now) :
         LET r == _update_device_list(devices, device_history,
                                      current_devices, now)
         IN  /\ devices' = r.devices
             /\ device_history' = r.history
    /\ op' = "reconcile"
    /\ UNCHANGED <<focus, now, snapshot, events, ports, port_history>>
    /\ UNCHANGED pollerVars
    /\ UNCHANGED testerVars

\* A tick or a manual refresh of the port monitor.
TimedReconcilePorts ==
    /\ focus = "port"
    /\ \E current_ports \in TimedPortSnapshots(now) :
         LET r == _update_port_list(ports, port_history, current_ports)
         IN  /\ ports' = r.ports
             /\ port_history' = r.history
    /\ op' = "reconcile"
    /\ UNCHANGED <<focus, now, snapshot, events, devices, device_history>>
    /\ UNCHANGED pollerVars
    /\ UNCHANGED testerVars

\* Variant of open_port that stamps created_at (C23).
TimedOpenPort_StampsCreatedAt ==
    /\ focus = "port"
    /\ \E port_name \in PortNames :
         LET i == _find_port_by_name(ports, port_name) IN
         ports' = IF i # 0
                  THEN [ports EXCEPT ![i] = [@ EXCEPT !.is_open = TRUE,
                                                     !.created_at = now]]
                  ELSE ports
    /\ op' = "open_port"
    /\ UNCHANGED <<focus, now, snapshot, events, devices, device_history,
                   port_history>>
    /\ UNCHANGED pollerVars
    /\ UNCHANGED testerVars

\* PortMonitor.open_port, serial.Serial(...) returned.
TimedOpenPort ==
    /\ focus = "port"
    /\ \E port_name \in PortNames :
         LET i == _find_port_by_name(ports, port_name) IN
         ports' = IF i # 0
                  THEN [ports EXCEPT ![i] = [@ EXCEPT !.is_open = TRUE,
                                                     !.last_used = <<now>>]]
                  ELSE ports
    /\ op' = "open_port"
    /\ UNCHANGED <<focus, now, snapshot, events, devices, device_history,
                   port_history>>
    /\ UNCHANGED pollerVars
    /\ UNCHANGED testerVars

\* PortMonitor.close_port
TimedClosePort ==
    /\ focus = "port"
    /\ \E port_name \in PortNames :
         LET i == _find_port_by_name(ports, port_name) IN
         ports' = IF i # 0
                  THEN [ports EXCEPT ![i] = [@ EXCEPT !.is_open = FALSE]]
                  ELSE ports
    /\ op' = "close_port"
    /\ UNCHANGED <<focus, now, snapshot, events, devices, device_history,
                   port_history>>
    /\ UNCHANGED pollerVars
    /\ UNCHANGED testerVars

\* Time passes between two operations.
ClockAdvances ==
    /\ now < MaxClock
    /\ now' = now + 1
    /\ UNCHANGED <<focus, op, snapshot, events, devices, device_history,
                   ports, port_history>>
    /\ UNCHANGED pollerVars
    /\ UNCHANGED testerVars

TimedNext ==
    \/ ClockAdvances
    \/ TimedReconcileDevices
    \/ DeviceClearHistory
    \/ TimedReconcilePorts
    \/ PortClearHistory
    \/ TimedOpenPort
    \/ TimedClosePort

TimedSpec == Init /\ [][TimedNext]_vars

(***************************************************************************)
(* Vocabulary of the properties.                                           *)
(***************************************************************************)
IsReconcile(o) == o = "reconcile"

DeviceIdIn(device_id, snap) ==
    \E k \in 1..Len(snap) : snap[k].device_id = device_id

PortNameIn(port_name, snap) ==
    \E k \in 1..Len(snap) : snap[k].port_name = port_name

\* Positions of the log with a call of slot cb on the record at index i.
Calls(evs, cb, i) == { j \in 1..Len(evs) : evs[j].cb = cb /\ evs[j].idx = i }

\* Positions of the log with any call on the record at index i.
CallsOn(evs, i) == { j \in 1..Len(evs) : evs[j].idx = i }

TransitionSlots ==
    {"on_device_connected", "on_device_disconnected", "on_port_status_changed"}

DeviceInfoOf(d) ==
    [name |-> d.name, manufacturer |-> d.manufacturer,
     serial_number |-> d.serial_number]

PortInfoOf(p) ==
    [device_name |-> p.device_name, description |-> p.description,
     manufacturer |-> p.manufacturer, product_id |-> p.product_id,
     vendor_id |-> p.vendor_id, serial_number |-> p.serial_number]

(***************************************************************************)
(* C1.  A reconcile whose snapshot is empty changes no record and fires no *)
(* callback: no device goes to is_connected = FALSE, no port to            *)
(* is_available = FALSE.  Stated as the claim has it; the code violates it *)
(* (the second loop marks every connected record as gone).                 *)
(***************************************************************************)
C1_EmptySnapshotIsNoOp ==
    [][ (IsReconcile(op') /\ snapshot' = << >>)
        => /\ devices' = devices
           /\ ports' = ports
           /\ events' = << >> ]_vars

(***************************************************************************)
(* C2.  A record whose key is absent from the snapshot stays in the entity *)
(* list, ends the pass with its flag FALSE, and its disappearance callback *)
(* fires exactly once in the pass in which it was connected / available    *)
(* and not at all in a pass in which it was already gone.                  *)
(***************************************************************************)
C2_DisappearanceFlipsOnce ==
    [][ IsReconcile(op') =>
        /\ focus = "device" =>
             \A i \in 1..Len(devices) :
               ~ DeviceIdIn(devices[i].device_id, snapshot') =>
                 /\ i <= Len(devices')
                 /\ devices'[i].device_id = devices[i].device_id
                 /\ ~ devices'[i].is_connected
                 /\ Cardinality(Calls(events', "on_device_disconnected", i))
                      = (IF devices[i].is_connected THEN 1 ELSE 0)
                 /\ CallsOn(events', i) = Calls(events', "on_device_disconnected", i)
        /\ focus = "port" =>
             \A i \in 1..Len(ports) :
               ~ PortNameIn(ports[i].port_name, snapshot') =>
                 /\ i <= Len(ports')
                 /\ ports'[i].port_name = ports[i].port_name
                 /\ ~ ports'[i].is_available
                 /\ Cardinality(Calls(events', "on_port_status_changed", i))
                      = (IF ports[i].is_available THEN 1 ELSE 0)
                 /\ CallsOn(events', i) = Calls(events', "on_port_status_changed", i)
      ]_vars

\* A pass has just marked a device as gone: two records, the second absent
\* from the snapshot, disconnected, with its one callback in the log.
C2_Witness ==
    /\ focus = "device" /\ IsReconcile(op)
    /\ Len(devices) = 2
    /\ DeviceIdIn(devices[1].device_id, snapshot)
    /\ ~ DeviceIdIn(devices[2].device_id, snapshot)
    /\ ~ devices[2].is_connected
    /\ devices[2].connection_status = "Disconnected"
    /\ Cardinality(Calls(events, "on_device_disconnected", 2)) = 1

(***************************************************************************)
(* C3.  Without clear_history the history list only grows at its end, and  *)
(* in one pass it grows by exactly the number of distinct identity keys of *)
(* the snapshot that match no record of the entity list.                   *)
(***************************************************************************)
C3_HistoryAppendOnly ==
    [][ op' # "clear_history" =>
        /\ focus = "device" =>
             /\ Len(device_history') >= Len(device_history)
             /\ SubSeq(device_history', 1, Len(device_history)) = device_history
             /\ Len(device_history') - Len(device_history)
                  = Cardinality({ snapshot'[k].device_id : k \in 1..Len(snapshot') }
                                \ { devices[i].device_id : i \in 1..Len(devices) })
        /\ focus = "port" =>
             /\ Len(port_history') >= Len(port_history)
             /\ SubSeq(port_history', 1, Len(port_history)) = port_history
             /\ Len(port_history') - Len(port_history)
                  = Cardinality({ snapshot'[k].port_name : k \in 1..Len(snapshot') }
                                \ { ports[i].port_name : i \in 1..Len(ports) })
      ]_vars

\* A pass has matched the first record and appended a second one.
C3_Witness ==
    /\ focus = "device" /\ IsReconcile(op)
    /\ Len(devices) = 2
    /\ device_history = <<1, 2>>
    /\ Calls(events, "on_device_updated", 1) # {}
    /\ Calls(events, "on_device_connected", 2) # {}

(***************************************************************************)
(* C4.  Reconnect: a pass whose snapshot holds, once and connected, the    *)
(* device_id of a disconnected record fires on_device_connected exactly    *)
(* once for that record, leaves it connected with status "Connected", and  *)
(* appends nothing for it; when every key of the snapshot is known the     *)
(* lengths of devices and device_history do not change.                    *)
(***************************************************************************)
C4_ReconnectReusesRecord ==
    [][ (IsReconcile(op') /\ focus = "device") =>
        \A i \in 1..Len(devices) :
          ( /\ ~ devices[i].is_connected
            /\ Cardinality({ k \in 1..Len(snapshot') :
                               snapshot'[k].device_id = devices[i].device_id }) = 1
            /\ \A k \in 1..Len(snapshot') :
                  snapshot'[k].device_id = devices[i].device_id
                    => snapshot'[k].is_connected )
          => /\ Cardinality(Calls(events', "on_device_connected", i)) = 1
             /\ \A j \in Calls(events', "on_device_connected", i) :
                   events'[j].rec.is_connected
             /\ Calls(events', "on_device_disconnected", i) = {}
             /\ devices'[i].is_connected
             /\ devices'[i].connection_status = "Connected"
             /\ devices'[i].device_id = devices[i].device_id
             /\ \A n \in 1..Len(devices') :
                   devices'[n].device_id = devices[i].device_id => n = i
             /\ (\A k \in 1..Len(snapshot') :
                    _find_device_by_id(devices, snapshot'[k].device_id) # 0)
                  => /\ Len(devices') = Len(devices)
                     /\ device_history' = device_history
      ]_vars

\* A pass over a one-entry snapshot has fired on_device_connected and then
\* on_device_updated: the entry matched a disconnected record.
C4_Witness ==
    /\ focus = "device" /\ IsReconcile(op)
    /\ Len(snapshot) = 1 /\ Len(devices) = 1 /\ Len(device_history) = 1
    /\ Len(events) = 2
    /\ events[1].cb = "on_device_connected"
    /\ events[2].cb = "on_device_updated"
    /\ devices[1].is_connected

(***************************************************************************)
(* C8.  Order of the callbacks of one pass.                                *)
(*   new-entity callback:  the first call on a record appended in the pass *)
(*   disappearance callback: a call on a record whose key is not in the    *)
(*                           snapshot                                      *)
(*   update callback:      every other call                                *)
(***************************************************************************)
KeyOf(rec) == IF focus = "device" THEN rec.device_id ELSE rec.port_name

KeyIn(key, snap) ==
    IF focus = "device" THEN DeviceIdIn(key, snap) ELSE PortNameIn(key, snap)

\* Classes of position j of the log evs of a pass that started with n
\* records and reconciled snapshot snap.
NewEntityCall(evs, j, n) ==
    /\ evs[j].idx > n
    /\ \A l \in 1..(j-1) : evs[l].idx # evs[j].idx

DisappearanceCall(evs, j, snap) == ~ KeyIn(KeyOf(evs[j].rec), snap)

UpdateCall(evs, j, n, snap) ==
    ~ NewEntityCall(evs, j, n) /\ ~ DisappearanceCall(evs, j, snap)

EntityCount == IF focus = "device" THEN Len(devices) ELSE Len(ports)

\* The claim as stated: new-entity calls, then update calls, then
\* disappearance calls.  The code violates it: the first loop handles the
\* snapshot entries in snapshot order, new and known ones interleaved.
C8_NewThenUpdateThenDisappearance ==
    [][ IsReconcile(op') =>
        \A j, l \in 1..Len(events') :
          /\ ( /\ NewEntityCall(events', j, EntityCount)
               /\ UpdateCall(events', l, EntityCount, snapshot') ) => j < l
          /\ ( /\ UpdateCall(events', j, EntityCount, snapshot')
               /\ DisappearanceCall(events', l, snapshot') ) => j < l
      ]_vars

\* As amended: the calls for the entities of the snapshot (new-entity and
\* update calls, interleaved in snapshot order) all come before every
\* disappearance call.
C8_SnapshotCallsThenDisappearance ==
    [][ IsReconcile(op') =>
        \A j, l \in 1..Len(events') :
          /\ ( /\ ~ DisappearanceCall(events', j, snapshot')
               /\ DisappearanceCall(events', l, snapshot') ) => j < l
          /\ ( /\ j < l
               /\ ~ DisappearanceCall(events', j, snapshot')
               /\ ~ DisappearanceCall(events', l, snapshot') )
             => \E a, b \in 1..Len(snapshot') :
                   /\ a <= b
                   /\ KeyOf(snapshot'[a]) = KeyOf(events'[j].rec)
                   /\ KeyOf(snapshot'[b]) = KeyOf(events'[l].rec)
      ]_vars

\* A pass has fired an update call and then a disappearance call.
C8_Witness ==
    /\ focus = "device" /\ IsReconcile(op)
    /\ Len(events) = 2
    /\ events[1].cb = "on_device_updated"
    /\ events[2].cb = "on_device_disconnected"
    /\ events[1].idx # events[2].idx
    /\ ~ DeviceIdIn(events[2].rec.device_id, snapshot)

(***************************************************************************)
(* C9.  A snapshot entity that matches a record with an equal flag.        *)
(***************************************************************************)
\* The claim as stated: no transition callback fires for the record in the
\* pass.  The code violates it when the snapshot holds the key again with
\* the other flag.
C9_NoTransitionCallOnEqualFlag ==
    [][ IsReconcile(op') =>
        /\ focus = "device" =>
             \A k \in 1..Len(snapshot') :
               LET i == _find_device_by_id(devices, snapshot'[k].device_id) IN
               (i # 0 /\ snapshot'[k].is_connected = devices[i].is_connected)
               => \A j \in CallsOn(events', i) : events'[j].cb \notin TransitionSlots
        /\ focus = "port" =>
             \A k \in 1..Len(snapshot') :
               LET i == _find_port_by_name(ports, snapshot'[k].port_name) IN
               (i # 0 /\ snapshot'[k].is_available = ports[i].is_available)
               => \A j \in CallsOn(events', i) : events'[j].cb \notin TransitionSlots
      ]_vars

\* As amended: ... provided no entity of the snapshot with the same key
\* carries the other flag.
C9_NoTransitionCallOnEqualFlags ==
    [][ IsReconcile(op') =>
        /\ focus = "device" =>
             \A k \in 1..Len(snapshot') :
               LET i == _find_device_by_id(devices, snapshot'[k].device_id) IN
               ( /\ i # 0
                 /\ \A m \in 1..Len(snapshot') :
                       snapshot'[m].device_id = snapshot'[k].device_id
                         => snapshot'[m].is_connected = devices[i].is_connected )
               => \A j \in CallsOn(events', i) : events'[j].cb \notin TransitionSlots
        /\ focus = "port" =>
             \A k \in 1..Len(snapshot') :
               LET i == _find_port_by_name(ports, snapshot'[k].port_name) IN
               ( /\ i # 0
                 /\ \A m \in 1..Len(snapshot') :
                       snapshot'[m].port_name = snapshot'[k].port_name
                         => snapshot'[m].is_available = ports[i].is_available )
               => \A j \in CallsOn(events', i) : events'[j].cb \notin TransitionSlots
      ]_vars

\* A pass has matched a record with an entity of equal flag and other
\* descriptive fields, and has fired on_device_updated only.
C9_Witness ==
    /\ focus = "device" /\ IsReconcile(op)
    /\ Len(snapshot) = 1 /\ Len(devices) = 1
    /\ snapshot[1].device_id = devices[1].device_id
    /\ snapshot[1].is_connected = devices[1].is_connected
    /\ DeviceInfoOf(snapshot[1]) # DeviceInfoOf(devices[1])
    /\ Len(events) = 1
    /\ events[1].cb = "on_device_updated"

(***************************************************************************)
(* C10.  After a pass, a record that an entity of the snapshot matched     *)
(* (the only entity with that key) has the descriptive fields of that      *)
(* entity.  Stated as the claim has it, for devices and ports; the device  *)
(* code violates it (it writes is_connected, connection_status and         *)
(* last_seen only).                                                        *)
(***************************************************************************)
C10_DescriptiveFieldsRefreshed ==
    [][ IsReconcile(op') =>
        /\ focus = "device" =>
             \A k \in 1..Len(snapshot') :
               LET i == _find_device_by_id(devices, snapshot'[k].device_id) IN
               ( /\ i # 0
                 /\ \A m \in 1..Len(snapshot') :
                       snapshot'[m].device_id = snapshot'[k].device_id => m = k )
               => DeviceInfoOf(devices'[i]) = DeviceInfoOf(snapshot'[k])
        /\ focus = "port" =>
             \A k \in 1..Len(snapshot') :
               LET i == _find_port_by_name(ports, snapshot'[k].port_name) IN
               ( /\ i # 0
                 /\ \A m \in 1..Len(snapshot') :
                       snapshot'[m].port_name = snapshot'[k].port_name => m = k )
               => PortInfoOf(ports'[i]) = PortInfoOf(snapshot'[k])
      ]_vars

(***************************************************************************)
(* C5.  The caller's refresh_devices and a worker's tick are never inside  *)
(* _update_device_list at the same time.  Stated as the claim has it; the  *)
(* code violates it (nothing keeps the caller out while a worker is in).   *)
(***************************************************************************)
C5_ReconcileMutuallyExclusive ==
    ~ ( /\ tpc[Caller] \in ReconcilePcs
        /\ \E w \in Workers : tpc[w] \in ReconcilePcs )

(***************************************************************************)
(* C6.  At most one worker runs _monitor_loop at a time.  Stated as the    *)
(* claim has it; the code violates it (a worker that is asleep when        *)
(* stop_monitoring's join times out finds the flag set again by the next   *)
(* start_monitoring and goes on, next to the new worker).                  *)
(***************************************************************************)
C6_AtMostOneWorker ==
    Cardinality({ w \in Workers : is_alive(w) }) <= 1

(***************************************************************************)
(* C7.  While the flag is clear no worker starts a tick; a worker inside a *)
(* tick is never taken out of it (it leaves the tick by finishing it, into *)
(* its sleep); and once the flag is clear, either start_monitoring sets it *)
(* again or every worker ends up outside _monitor_loop.                    *)
(***************************************************************************)
C7_StopEndsWorkers ==
    /\ [][ \A w \in Workers :
             /\ (~ is_monitoring /\ tpc[w] \notin TickPcs)
                  => tpc'[w] \notin TickPcs
             /\ tpc[w] \in TickPcs => tpc'[w] \in TickPcs \cup {"sleep"}
             /\ tpc'[w] = "exited" => tpc[w] \in {"while", "exited"} ]_vars
    /\ (~ is_monitoring) ~> (is_monitoring \/ \A w \in Workers : ~ is_alive(w))

\* A worker that has reconciled at least one snapshot has left the loop
\* after stop_monitoring.
C7_Witness ==
    /\ ~ is_monitoring
    /\ monitor_thread # 0
    /\ tpc[monitor_thread] = "exited"
    /\ Len(devices) >= 1
    /\ tpc[Caller] = "idle"

(***************************************************************************)
(* C11.  No port record is open while it is unavailable.  Stated as the    *)
(* claim has it; the code violates it (the second loop of                  *)
(* _update_port_list clears is_available and leaves is_open as it is, and  *)
(* open_port does not look at is_available).                               *)
(***************************************************************************)
C11_OpenImpliesAvailable ==
    \A i \in 1..Len(ports) : ports[i].is_open => ports[i].is_available

(***************************************************************************)
(* C12.  No step removes a record: the entity lists never get shorter and  *)
(* every record keeps its place and its identity key; clear_history        *)
(* empties the history list and leaves the entity list, with every field   *)
(* of every record, as it was.                                             *)
(***************************************************************************)
C12_NoRecordRemoved ==
    [][ /\ Len(devices') >= Len(devices)
        /\ Len(ports') >= Len(ports)
        /\ \A i \in 1..Len(devices) : devices'[i].device_id = devices[i].device_id
        /\ \A i \in 1..Len(ports) : ports'[i].port_name = ports[i].port_name
        /\ op' = "clear_history"
             => /\ devices' = devices
                /\ ports' = ports
                /\ device_history' = << >>
                /\ port_history' = << >>
      ]_vars

\* clear_history has emptied a history that held two records, one of them
\* marked as gone; both are still in the entity list.
C12_Witness ==
    /\ focus = "device" /\ op = "clear_history"
    /\ Len(devices) = 2
    /\ \E i \in 1..2 : ~ devices[i].is_connected
    /\ device_history = << >>

(***************************************************************************)
(* C13.  An exception raised inside a tick (by the fetch or by a callback  *)
(* called from the reconcile step) does not end the worker: from the       *)
(* except clause the worker goes to its sleep and nowhere else, from its   *)
(* sleep to the loop test and nowhere else, it ends only at the loop test  *)
(* with the flag clear, and a worker that caught an exception reaches its  *)
(* next tick unless it finds the flag clear and ends.                      *)
(***************************************************************************)
C13_ExceptionKeepsWorker ==
    /\ [][ \A w \in Workers :
             /\ tpc[w] = "except" => tpc'[w] \in {"except", "sleep"}
             /\ tpc[w] = "sleep" => tpc'[w] \in {"sleep", "while"}
             /\ (tpc[w] = "while" /\ is_monitoring)
                  => tpc'[w] \in {"while", "fetch"}
             /\ (tpc'[w] = "exited" /\ tpc[w] # "exited")
                  => (tpc[w] = "while" /\ ~ is_monitoring) ]_vars
    /\ \A w \in Workers :
         (tpc[w] = "except") ~> (tpc[w] = "fetch" \/ tpc[w] = "exited")

\* A callback has raised after the first loop appended a record: the
\* worker is in the except clause, the flag is set.
C13_Witness ==
    /\ is_monitoring
    /\ monitor_thread # 0
    /\ tpc[monitor_thread] = "except"
    /\ Len(devices) >= 1

(***************************************************************************)
(* C20.  Every callback of a pass is passed the record as the pass leaves  *)
(* it (for a record whose key the snapshot holds at most once, so that one *)
(* entry at most writes to it).  Stated as the claim has it; the code      *)
(* violates it (_update_port_list calls on_port_status_changed before it   *)
(* refreshes the descriptive fields).                                      *)
(***************************************************************************)
C20_CallbackSeesUpdatedRecord ==
    [][ IsReconcile(op') =>
        \A j \in 1..Len(events') :
          LET i == events'[j].idx
              rec == events'[j].rec
          IN  Cardinality({ k \in 1..Len(snapshot') :
                              KeyOf(snapshot'[k]) = KeyOf(rec) }) <= 1
              => rec = (IF focus = "device" THEN devices'[i] ELSE ports'[i])
      ]_vars

(***************************************************************************)
(* Properties of the speed tester.                                         *)
(***************************************************************************)
CompletedCalls(w) ==
    { j \in 1..Len(calls[w]) : calls[w][j].cb = "on_test_completed" }

StartedCalls(w) ==
    { j \in 1..Len(calls[w]) : calls[w][j].cb = "on_test_started" }

\* C18: a probe started with a positive size_mb that met no I/O error, no
\* raising callback and no stop_speed_test ends with an on_test_completed
\* whose result has success = TRUE and the three speeds (payload generation
\* itself does not fail).
C18_UndisturbedProbeSucceeds ==
    \A w \in ProbeThreads :
        ( /\ probe[w].pc = "ended"
          /\ probe[w].test_size_mb > 0
          /\ ~ probe[w].stopped
          /\ probe[w].e \notin {"OSError", "callback"} )
        => \E j \in CompletedCalls(w) :
              LET res == calls[w][j].result
              IN  /\ res.success
                  /\ res.average_speed_mbps
                       = (res.write_speed_mbps + res.read_speed_mbps) \div 2

\* C15: start_speed_test called while is_testing is true starts no thread,
\* leaves is_testing and current_test_thread as they are and causes no
\* call to a slot: nothing of the tester changes, so the probe in flight
\* goes on as if the call had not happened.
C15_StartWhileTestingIsNoOp ==
    [][ (is_testing /\ op' = "start_speed_test")
        => /\ is_testing' = is_testing
           /\ current_test_thread' = current_test_thread
           /\ \A w \in ProbeThreads :
                 /\ probe'[w] = probe[w]
                 /\ calls'[w] = calls[w] ]_vars

\* A start call was ignored while the probe was in its except clause,
\* on_test_started having been called once.
C15_Witness ==
    /\ op = "start_speed_test"
    /\ is_testing
    /\ current_test_thread # 0
    /\ probe[current_test_thread].pc = "handler"
    /\ Cardinality(StartedCalls(current_test_thread)) = 1

Executing == { w \in ProbeThreads : probe_is_alive(w) }

\* C16: whatever the interleaving of start_speed_test and stop_speed_test,
\* at most one probe thread is executing _run_speed_test, and is_testing is
\* true whenever one is executing.
C16_OneProbeAndFlagSet ==
    /\ Cardinality(Executing) <= 1
    /\ \A w \in Executing : is_testing

EntriesWithId(snap, device_id) ==
    { k \in 1..Len(snap) : snap[k].device_id = device_id }

C21_UpdatedOncePerMatch ==
    [][ (IsReconcile(op') /\ focus = "device") =>
        \A i \in 1..Len(devices') :
           Cardinality(Calls(events', "on_device_updated", i))
             = Cardinality(EntriesWithId(snapshot', devices'[i].device_id))
                 - (IF i > Len(devices) THEN 1 ELSE 0) ]_vars

\* A pass has matched the one record with an entry of equal flag and equal
\* fields and has created a second record from another entry: one
\* on_device_updated call on the first, none on the second.
C21_Witness ==
    /\ focus = "device" /\ IsReconcile(op)
    /\ Len(snapshot) = 2 /\ Len(devices) = 2
    /\ Len(device_history) = 2
    /\ snapshot[1].device_id = devices[1].device_id
    /\ snapshot[1].is_connected = devices[1].is_connected
    /\ DeviceInfoOf(snapshot[1]) = DeviceInfoOf(devices[1])
    /\ snapshot[2].device_id = devices[2].device_id
    /\ Cardinality(Calls(events, "on_device_updated", 1)) = 1
    /\ Calls(events, "on_device_updated", 2) = {}
    /\ Len(events) = 2

(***************************************************************************)
(* C22.  Every record of devices has first_seen <= last_seen, after any    *)
(* sequence of ticks and manual refreshes, the clock never going back.     *)
(***************************************************************************)
C22_FirstSeenBeforeLastSeen ==
    \A i \in 1..Len(devices) : devices[i].first_seen <= devices[i].last_seen

\* The clock has advanced: one record was created before and seen again
\* now, another was created now.
C22_Witness ==
    /\ focus = "device" /\ now = 1 /\ op = "reconcile"
    /\ Len(devices) = 2
    /\ devices[1].first_seen = 0 /\ devices[1].last_seen = 1
    /\ devices[2].first_seen = 1 /\ devices[2].last_seen = 1

(***************************************************************************)
(* C23.  No tick, manual refresh, open_port, close_port or clear_history   *)
(* changes the identity key (device_id, port_name) or the creation         *)
(* timestamp (first_seen, created_at) of a record that is in the list.     *)
(***************************************************************************)
C23_KeyAndCreationStampKept ==
    [][ /\ Len(devices') >= Len(devices)
        /\ \A i \in 1..Len(devices) :
              /\ devices'[i].device_id = devices[i].device_id
              /\ devices'[i].first_seen = devices[i].first_seen
        /\ Len(ports') >= Len(ports)
        /\ \A i \in 1..Len(ports) :
              /\ ports'[i].port_name = ports[i].port_name
              /\ ports'[i].created_at = ports[i].created_at ]_vars

\* A port created at reading 0 was opened at reading 1, after a pass at
\* reading 1 had created a second record.
C23_Witness ==
    /\ focus = "port" /\ now = 1 /\ op = "open_port"
    /\ Len(ports) = 2
    /\ ports[1].created_at = 0 /\ ports[1].is_open
    /\ ports[1].last_used = <<1>>
    /\ ports[2].created_at = 1

(***************************************************************************)
(* C24.  The result built from size S, write time W and read time R has    *)
(* write_speed_mbps = S/W, read_speed_mbps = S/R and average_speed_mbps =  *)
(* (write + read)/2; S = 100, W = 2, R = 4 gives 50, 25 and 37.5; a phase  *)
(* time of 0 gives speed 0 for that phase.  (In thousandths of a MB/s.)    *)
(***************************************************************************)
C24_SpeedsOfResult ==
    call.fn = "SpeedTestResult" =>
        LET S == call.args[1]
            W == call.args[2]
            R == call.args[3]
            res == call.ret
        IN  /\ W > 0 => res.write_speed_mbps * W = S * 1000
            /\ R > 0 => res.read_speed_mbps * R = S * 1000
            /\ W = 0 => res.write_speed_mbps = 0
            /\ R = 0 => res.read_speed_mbps = 0
            /\ 2 * res.average_speed_mbps
                  = res.write_speed_mbps + res.read_speed_mbps
            /\ (S = 100 /\ W = 2 /\ R = 4)
                  => /\ res.write_speed_mbps = 50000
                     /\ res.read_speed_mbps = 25000
                     /\ res.average_speed_mbps = 37500

\* The result for 100 MB written in 2 s and read in 4 s has been built.
C24_Witness ==
    /\ call.fn = "SpeedTestResult"
    /\ call.args = <<100, 2, 4>>
    /\ call.ret.average_speed_mbps = 37500
    /\ call.ret.success

(***************************************************************************)
(* C25.  get_usb_speed_rating(s) is the bucket of the highest threshold    *)
(* among 400, 200, 60, 10, 1 that s reaches (s equal to a threshold        *)
(* reaches it), Very Slow if it reaches none; the rank of the bucket does  *)
(* not decrease when s grows.                                              *)
(***************************************************************************)
BucketOf(T) ==
    CASE T = 400 -> "Excellent (USB 3.0+)"
      [] T = 200 -> "Very Good (USB 3.0)"
      [] T = 60  -> "Good (USB 2.0 High-Speed)"
      [] T = 10  -> "Moderate (USB 2.0)"
      [] T = 1   -> "Slow (USB 1.1)"
      [] T = 0   -> "Very Slow"

\* The highest threshold that s reaches, 0 if none.
Reached(s) ==
    LET R == { T \in Thresholds : s >= 1000 * T }
    IN  IF R = {} THEN 0 ELSE CHOOSE T \in R : \A U \in R : U <= T

\* The threshold of a bucket: its rank.
RankOf(bucket) == CHOOSE T \in Thresholds \cup {0} : BucketOf(T) = bucket

C25_RatingBuckets ==
    call.fn = "get_usb_speed_rating" =>
        LET s == call.args[1] IN
        /\ call.ret = BucketOf(Reached(s))
        /\ \A s2 \in RatingInputs :
              s2 >= s => RankOf(get_usb_speed_rating(s2)) >= RankOf(call.ret)

\* A speed equal to a threshold has been rated into the higher bucket.
C25_Witness ==
    /\ call.fn = "get_usb_speed_rating"
    /\ call.args = <<60000>>
    /\ call.ret = "Good (USB 2.0 High-Speed)"

(***************************************************************************)
(* C26.  In every reachable state, a tick of the poller and a manual       *)
(* refresh interleaved as they may be, the device list holds at most one   *)
(* record per device_id.  Stated as the claim has it; the code violates it *)
(* (two threads can both find no record and both append).                  *)
(***************************************************************************)
C26_OneRecordPerKey ==
    \A i, j \in 1..Len(devices) :
        devices[i].device_id = devices[j].device_id => i = j

(***************************************************************************)
(* C27.  The device passed to on_device_connected has is_connected = TRUE  *)
(* and the device passed to on_device_disconnected has is_connected =      *)
(* FALSE, the first observation of a device whose snapshot record carries  *)
(* is_connected = FALSE included.  Stated as the claim has it; the code    *)
(* violates it (a new record is announced by on_device_connected whatever  *)
(* its flag).                                                              *)
(***************************************************************************)
C27_CallbackMatchesFlag ==
    focus = "device" =>
        \A j \in 1..Len(events) :
            /\ events[j].cb = "on_device_connected" => events[j].rec.is_connected
            /\ events[j].cb = "on_device_disconnected"
                  => ~ events[j].rec.is_connected

(***************************************************************************)
(* C29.  With ticks, manual refreshes and clear_history on one thread,     *)
(* every record of the history list is a record of the entity list, and    *)
(* the history list is a suffix of the entity list in the same order; it   *)
(* is the whole list as long as clear_history has not been called.         *)
(***************************************************************************)
\* hist refers to the last Len(hist) of n records, in their order.
IsSuffixOf(hist, n) ==
    /\ Len(hist) <= n
    /\ \A j \in 1..Len(hist) : hist[j] = n - Len(hist) + j

C29_HistoryIsSuffix ==
    /\ [](/\ IsSuffixOf(device_history, Len(devices))
          /\ IsSuffixOf(port_history, Len(ports)))
    /\ [][ op' # "clear_history" =>
             /\ Len(device_history) = Len(devices)
                   => Len(device_history') = Len(devices')
             /\ Len(port_history) = Len(ports)
                   => Len(port_history') = Len(ports') ]_vars

\* After a clear_history, a pass has created a second record: the history
\* holds that record only.
C29_Witness ==
    /\ focus = "device" /\ IsReconcile(op)
    /\ Len(devices) = 2
    /\ device_history = << 2 >>

(***************************************************************************)
(* C30.  While monitoring runs and the worker is scheduled fairly: from a  *)
(* point after which every fetched snapshot holds LiveKey with the flag    *)
(* set, the list eventually holds a connected record of LiveKey; from a    *)
(* point after which no fetched snapshot holds LiveKey, every record of    *)
(* LiveKey is eventually disconnected.  ("From any point where P holds     *)
(* for ever, eventually Q" is <>[]P => []<>Q.)  Stated as the claim has    *)
(* it; the code violates it (a callback that raises in the first loop      *)
(* ends the pass before the later entries and the second loop).            *)
(***************************************************************************)
HoldsLiveKey(snap) ==
    \E j \in 1..Len(snap) :
       snap[j].device_id = LiveKey /\ snap[j].is_connected

\* A fetch, if this step is one, returns a snapshot for which P holds.
FetchGives(P(_)) ==
    \A th \in {Caller} \cup Workers :
       (tpc[th] = "fetch" /\ tpc'[th] = "loop1") => P(loc'[th])

LacksLiveKey(snap) == ~ DeviceIdIn(LiveKey, snap)

LiveKeyConnected ==
    \E i \in 1..Len(devices) :
       devices[i].device_id = LiveKey /\ devices[i].is_connected

LiveKeyDisconnected ==
    \A i \in 1..Len(devices) :
       devices[i].device_id = LiveKey => ~ devices[i].is_connected

C30_EventuallyReconciled ==
    /\ (<>[]is_monitoring /\ <>[][FetchGives(HoldsLiveKey)]_vars)
          => []<>LiveKeyConnected
    /\ (<>[]is_monitoring /\ <>[][FetchGives(LacksLiveKey)]_vars)
          => []<>LiveKeyDisconnected


====
